---- MODULE Spec2Model ----
(***************************************************************************)
(* Model of the trading-advisor backend: the indicator engine              *)
(* (src/backend/src/indicators/simple_indicators.py), the crossover signal *)
(* generator (src/backend/src/signals/simple_signals.py), the data fetcher *)
(* (src/backend/src/data/data_fetcher.py) and the /api/analyze handler     *)
(* (src/backend/api/api.py).                                               *)
(*                                                                         *)
(* Numbers.  Close prices are positive integers.  Every derived number (a  *)
(* moving average, a stop loss, a ratio) is an exact rational              *)
(* [t |-> "num", n, d] with d > 0; pandas' NaN and Python's None are the   *)
(* values NaN and PyNone.  Percentages are held in hundredths: the Python  *)
(* value 0.05 is the integer 5.  Floating-point rounding error is not      *)
(* modelled.                                                               *)
(*                                                                         *)
(* Indices.  The source indexes bars from 0; sequences here start at 1.    *)
(* At(s, i) reads the element the source calls s.iloc[i].  The date of bar *)
(* i is the day number i (the series is daily and gap-free).               *)
(***************************************************************************)
EXTENDS Integers, Sequences, FiniteSets, TLC

(***************************************************************************)
(* Bounds of the input space.                                              *)
(***************************************************************************)
\* Length of the constant-price run that starts every long series.
BaseLen == 49
\* Close price of every bar of that run.
BasePrice == 2
\* A series ends with at most MaxTail freely chosen bars.
MaxTail == 4
\* Freely chosen closes range over 1..MaxPrice.
MaxPrice == 3
\* signals evaluated on their own are dated on days 0..MaxSignalDay, the
\* clock reads a day in 0..MaxClockDay, a hand-made list has at most
\* MaxSignals signals
MaxSignalDay == 2
MaxClockDay == 8
MaxSignals == 2

(***************************************************************************)
(* Program constants.                                                      *)
(***************************************************************************)
\* add_moving_averages(self, data, short_window=20, long_window=50)
DefaultShortWindow == 20
DefaultLongWindow == 50
\* find_crossover_signals: len(data_with_indicators) < 51
MinCrossoverBars == 51
\* find_crossover_signals reads the columns 'SMA_20' and 'SMA_50'
SignalShortCol == 20
SignalLongCol == 50
\* SimpleSignalGenerator(stop_loss_pct=0.05, take_profit_pct=0.10), in hundredths
DefaultStopLossPct == 5
DefaultTakeProfitPct == 10

(***************************************************************************)
(* Values.                                                                 *)
(***************************************************************************)
Num(n, d) == [t |-> "num", n |-> n, d |-> d]
NaN == [t |-> "nan", n |-> 0, d |-> 0]
PyNone == [t |-> "none", n |-> 0, d |-> 0]

\* pd.isna: true of NaN and of None
IsNa(v) == v.t # "num"

\* Comparisons of two numbers (callers have excluded NaN and None)
Lt(a, b) == a.n * b.d < b.n * a.d
Le(a, b) == a.n * b.d <= b.n * a.d
Gt(a, b) == Lt(b, a)
Ge(a, b) == Le(b, a)
Eq(a, b) == a.n * b.d = b.n * a.d

\* s.iloc[i]
At(s, i) == s[i + 1]

\* Python's round(x, 2) of an exact value: the nearest hundredth, a tie going
\* to the even hundredth; the result is a number of hundredths over 100.
Round2(v) ==
    LET scaled == v.n * 100
        q == scaled \div v.d
        r == scaled % v.d
    IN  IF 2 * r < v.d THEN Num(q, 100)
        ELSE IF 2 * r > v.d THEN Num(q + 1, 100)
        ELSE IF q % 2 = 0 THEN Num(q, 100) ELSE Num(q + 1, 100)

(***************************************************************************)
(* Frames.  A DataFrame is its Close column and its moving-average         *)
(* columns; the column 'SMA_<w>' is the entry w of cols.                   *)
(***************************************************************************)
None == [kind |-> "None"]
Frame(close, cols) == [kind |-> "DataFrame", close |-> close, cols |-> cols]
NoCols == [w \in {} |-> <<>>]

IsNone(f) == f.kind = "None"
\* data.empty
IsEmpty(f) == Len(f.close) = 0
HasCol(f, w) == w \in DOMAIN f.cols

(***************************************************************************)
(* The inputs: every series is a (possibly empty) constant run followed by *)
(* a short tail of free closes.  A run of BaseLen bars makes the series    *)
(* long enough for the 50-bar average to be defined in the tail.           *)
(***************************************************************************)
Tails == UNION {[1..n -> 1..MaxPrice] : n \in 0..MaxTail}
BaseRun(n) == [i \in 1..n |-> BasePrice]
SeriesSet == {BaseRun(b) \o t : b \in {0, BaseLen}, t \in Tails}

\* (short_window, long_window) pairs a caller of add_moving_averages passes
WindowPairs ==
    { <<DefaultShortWindow, DefaultLongWindow>>,
      <<10, 20>>, <<2, 3>>, <<3, 2>>, <<2, 2>>, <<0, 2>>, <<-1, 2>> }

\* (stop_loss_pct, take_profit_pct) pairs a caller of the constructor passes
PctPairs ==
    { <<DefaultStopLossPct, DefaultTakeProfitPct>>,
      <<10, 5>>, <<0, 10>>, <<-5, 10>>, <<100, 10>>, <<5, -10>> }

(***************************************************************************)
(* pandas: Series.rolling(window=W).mean().  The value at bar i is the     *)
(* mean of the W closes that end at bar i, and NaN while fewer than W bars *)
(* are available (min_periods = W).  A window of 0 never holds an          *)
(* observation, so every value is NaN.  The sum is split in halves to keep *)
(* the evaluation shallow.                                                 *)
(***************************************************************************)
RECURSIVE SumClose(_, _, _)
SumClose(close, lo, hi) ==
    IF lo > hi THEN 0
    ELSE IF lo = hi THEN At(close, lo)
    ELSE LET mid == (lo + hi) \div 2
         IN  SumClose(close, lo, mid) + SumClose(close, mid + 1, hi)

\* Faulty variants of RollingAt, against which the properties are tried:
\* min_periods = 1 (a mean of the bars available so far), a first value one
\* bar late, and a window that reaches one bar ahead.
RollingAtMinPeriodsOne(close, W, i) ==
    IF W = 0 THEN NaN
    ELSE IF i < W - 1 THEN Num(SumClose(close, 0, i), i + 1)
    ELSE Num(SumClose(close, i - W + 1, i), W)

RollingAtLate(close, W, i) ==
    IF W = 0 \/ i < W THEN NaN
    ELSE Num(SumClose(close, i - W + 1, i), W)

RollingAtLookAhead(close, W, i) ==
    IF W = 0 \/ i < W - 1 THEN NaN
    ELSE IF i + 1 < Len(close) THEN Num(SumClose(close, i - W + 2, i + 1), W)
    ELSE Num(SumClose(close, i - W + 1, i), W)

RollingAt(close, W, i) ==
    IF W = 0 \/ i < W - 1 THEN NaN
    ELSE Num(SumClose(close, i - W + 1, i), W)

RollingMean(close, W) ==
    [k \in 1..Len(close) |-> RollingAt(close, W, k - 1)]

(***************************************************************************)
(* SimpleIndicators.add_moving_averages(data, short_window, long_window).  *)
(* The outcome is "none" (the early return of None), "raised" (pandas      *)
(* rejects a negative window with ValueError) or "ok" with the copy that   *)
(* carries the two new columns.  With short_window = long_window the       *)
(* second assignment overwrites the first and one column results.          *)
(***************************************************************************)
WithAverages(data, short_window, long_window) ==
    Frame(data.close,
          [w \in (DOMAIN data.cols) \cup {short_window, long_window} |->
              IF w \in {short_window, long_window}
              THEN RollingMean(data.close, w)
              ELSE data.cols[w]])

\* Faulty variant: the early return tests only for None, not for emptiness.
add_moving_averages_none_only(data, short_window, long_window) ==
    IF IsNone(data)
    THEN [outcome |-> "none", frame |-> None]
    ELSE IF short_window < 0 \/ long_window < 0
    THEN [outcome |-> "raised", frame |-> None]
    ELSE [outcome |-> "ok",
          frame |-> WithAverages(data, short_window, long_window)]

add_moving_averages(data, short_window, long_window) ==
    IF IsNone(data) \/ IsEmpty(data)
    THEN [outcome |-> "none", frame |-> None]
    ELSE IF short_window < 0 \/ long_window < 0
    THEN [outcome |-> "raised", frame |-> None]
    ELSE [outcome |-> "ok",
          frame |-> WithAverages(data, short_window, long_window)]

(***************************************************************************)
(* SimpleSignalGenerator._create_buy_signal / _create_sell_signal.  The    *)
(* percentages are in hundredths, so 1 - stop_loss_pct is (100 - sl)/100.  *)
(* The division take_profit_pct / stop_loss_pct raises ZeroDivisionError   *)
(* when stop_loss_pct is 0: BuyRaises says so, and _create_buy_signal is   *)
(* applied only when it does not.                                          *)
(***************************************************************************)
BuyRaises(sl) == sl = 0

\* Faulty variant: the stop loss placed above the entry price.
StopLossAbove(price, sl) == Num(price.n * (100 + sl), price.d * 100)

StopLoss(price, sl) == Num(price.n * (100 - sl), price.d * 100)
\* Faulty variant: the target placed below the entry price.
TakeProfitBelow(price, tp) == Num(price.n * (100 - tp), price.d * 100)

TakeProfit(price, tp) == Num(price.n * (100 + tp), price.d * 100)
RiskReward(sl, tp) == IF sl > 0 THEN Num(tp, sl) ELSE Num(-tp, -sl)

create_buy_signal(date, price, sl, tp) ==
    [date |-> date, type |-> "BUY", price |-> price,
     stop_loss |-> StopLoss(price, sl),
     take_profit |-> TakeProfit(price, tp),
     risk_reward_ratio |-> RiskReward(sl, tp),
     reason |-> "SMA 20 crossed above SMA 50"]

\* Faulty variant: a SELL gets mirrored risk levels.
create_sell_signal_with_risk(date, price) ==
    [date |-> date, type |-> "SELL", price |-> price,
     stop_loss |-> Num(price.n * 105, price.d * 100),
     take_profit |-> Num(price.n * 90, price.d * 100),
     risk_reward_ratio |-> Num(2, 1),
     reason |-> "SMA 20 crossed below SMA 50"]

create_sell_signal(date, price) ==
    [date |-> date, type |-> "SELL", price |-> price,
     stop_loss |-> PyNone, take_profit |-> PyNone,
     risk_reward_ratio |-> PyNone,
     reason |-> "SMA 20 crossed below SMA 50"]

(***************************************************************************)
(* SimpleSignalGenerator.find_crossover_signals.  The exit is              *)
(* "insufficient" (None or fewer than 51 rows), "missing" (no 'SMA_20' or  *)
(* no 'SMA_50' column), "scanned" (the loop ran and the list is returned)  *)
(* or "raised" (the loop met a BUY crossover with stop_loss_pct = 0).      *)
(***************************************************************************)
\* Faulty variant: a tie on the day before is not counted as a crossover.
BuyCrossStrict(fy, sy, ft, st) == Lt(fy, sy) /\ Gt(ft, st)

BuyCross(fy, sy, ft, st) == Le(fy, sy) /\ Gt(ft, st)
SellCross(fy, sy, ft, st) == Ge(fy, sy) /\ Lt(ft, st)

\* Faulty variant: yesterday's averages are not tested for NaN.
BarOutcomeTodayOnly(f, i) ==
    LET ft == At(f.cols[SignalShortCol], i)
        st == At(f.cols[SignalLongCol], i)
        fy == At(f.cols[SignalShortCol], i - 1)
        sy == At(f.cols[SignalLongCol], i - 1)
    IN  IF IsNa(ft) \/ IsNa(st) THEN "skip"
        ELSE IF BuyCross(fy, sy, ft, st) THEN "BUY"
        ELSE IF SellCross(fy, sy, ft, st) THEN "SELL"
        ELSE "none"

\* What the loop body does at bar i: nothing, a BUY or a SELL.
BarOutcome(f, i) ==
    LET ft == At(f.cols[SignalShortCol], i)
        st == At(f.cols[SignalLongCol], i)
        fy == At(f.cols[SignalShortCol], i - 1)
        sy == At(f.cols[SignalLongCol], i - 1)
    IN  IF IsNa(ft) \/ IsNa(st) \/ IsNa(fy) \/ IsNa(sy) THEN "skip"
        ELSE IF BuyCross(fy, sy, ft, st) THEN "BUY"
        ELSE IF SellCross(fy, sy, ft, st) THEN "SELL"
        ELSE "none"

SignalFor(f, i, sl, tp) ==
    LET price == Num(At(f.close, i), 1)
    IN  IF BarOutcome(f, i) = "BUY" THEN create_buy_signal(i, price, sl, tp)
        ELSE create_sell_signal(i, price)

\* Faulty variant: each new signal is put at the head of the list.
ScanBarsNewestFirst(f, sl, tp) ==
    LET bars == [i \in 1..(Len(f.close) - 1) |-> i]
        Emits(i) == BarOutcome(f, i) \in {"BUY", "SELL"}
        hits == SelectSeq(bars, Emits)
        n == Len(hits)
    IN  IF BuyRaises(sl) /\ \E k \in 1..n : BarOutcome(f, hits[k]) = "BUY"
        THEN [exit |-> "raised", signals |-> <<>>]
        ELSE [exit |-> "scanned",
              signals |-> [k \in 1..n |-> SignalFor(f, hits[n + 1 - k], sl, tp)]]

\* for i in range(1, len(data_with_indicators)): the bars that signal, in
\* loop order; the first BUY raises when stop_loss_pct is 0.
ScanBars(f, sl, tp) ==
    LET bars == [i \in 1..(Len(f.close) - 1) |-> i]
        Emits(i) == BarOutcome(f, i) \in {"BUY", "SELL"}
        hits == SelectSeq(bars, Emits)
    IN  IF BuyRaises(sl) /\ \E k \in 1..Len(hits) : BarOutcome(f, hits[k]) = "BUY"
        THEN [exit |-> "raised", signals |-> <<>>]
        ELSE [exit |-> "scanned",
              signals |-> [k \in 1..Len(hits) |-> SignalFor(f, hits[k], sl, tp)]]

TooShort(f) == Len(f.close) < MinCrossoverBars

find_crossover_signals(f, sl, tp) ==
    IF IsNone(f) \/ TooShort(f)
    THEN [exit |-> "insufficient", signals |-> <<>>]
    ELSE IF ~HasCol(f, SignalShortCol) \/ ~HasCol(f, SignalLongCol)
    THEN [exit |-> "missing", signals |-> <<>>]
    ELSE ScanBars(f, sl, tp)

(***************************************************************************)
(* analyze_stock, step 4: the trend of the latest bar.                     *)
(* latest_data.get('SMA_20', 0) is 0 when the column does not exist.       *)
(***************************************************************************)
Latest(f, w) ==
    IF HasCol(f, w) THEN At(f.cols[w], Len(f.close) - 1) ELSE Num(0, 1)

\* ((a - b) / s) * 100; a zero divisor gives no number
StrengthPct(a, b, s) ==
    IF s.n = 0 THEN NaN
    ELSE Num((a.n * b.d - b.n * a.d) * s.d * 100, a.d * b.d * s.n)

\* Faulty variant: equal averages under a higher price count as mixed bullish.
ClassifyTrendTies(p, sma_20, sma_50) ==
    IF IsNa(sma_20) \/ IsNa(sma_50)
    THEN [trend |-> "INSUFFICIENT_DATA", trend_strength |-> Num(0, 1)]
    ELSE IF Gt(p, sma_20) /\ Gt(sma_20, sma_50)
    THEN [trend |-> "STRONG_BULLISH",
          trend_strength |-> StrengthPct(sma_20, sma_50, sma_50)]
    ELSE IF Gt(p, sma_20) /\ Le(sma_20, sma_50)
    THEN [trend |-> "MIXED_BULLISH",
          trend_strength |-> StrengthPct(sma_50, sma_20, sma_50)]
    ELSE IF Lt(p, sma_20) /\ Lt(sma_20, sma_50)
    THEN [trend |-> "STRONG_BEARISH",
          trend_strength |-> StrengthPct(sma_50, sma_20, sma_50)]
    ELSE [trend |-> "MIXED_BEARISH",
          trend_strength |-> StrengthPct(sma_20, sma_50, sma_50)]

ClassifyTrend(p, sma_20, sma_50) ==
    IF IsNa(sma_20) \/ IsNa(sma_50)
    THEN [trend |-> "INSUFFICIENT_DATA", trend_strength |-> Num(0, 1)]
    ELSE IF Gt(p, sma_20) /\ Gt(sma_20, sma_50)
    THEN [trend |-> "STRONG_BULLISH",
          trend_strength |-> StrengthPct(sma_20, sma_50, sma_50)]
    ELSE IF Gt(p, sma_20) /\ Lt(sma_20, sma_50)
    THEN [trend |-> "MIXED_BULLISH",
          trend_strength |-> StrengthPct(sma_50, sma_20, sma_50)]
    ELSE IF Lt(p, sma_20) /\ Lt(sma_20, sma_50)
    THEN [trend |-> "STRONG_BEARISH",
          trend_strength |-> StrengthPct(sma_50, sma_20, sma_50)]
    ELSE [trend |-> "MIXED_BEARISH",
          trend_strength |-> StrengthPct(sma_20, sma_50, sma_50)]

\* Faulty variant: an undefined value is reported as 0.
RoundOrZero(v) == IF IsNa(v) THEN Num(0, 1) ELSE Round2(v)

\* round(x, 2) if not pd.isna(x) else None
RoundOrNone(v) == IF IsNa(v) THEN PyNone ELSE Round2(v)

(***************************************************************************)
(* analyze_stock, the formatting of one signal.  The three risk fields are *)
(* added only to a BUY whose stop_loss and take_profit are truthy (neither *)
(* None nor zero).                                                         *)
(***************************************************************************)
Truthy(v) == v.t = "num" /\ v.n # 0

FormatSignal(sig) ==
    LET base == [date |-> sig.date, type |-> sig.type,
                 price |-> Round2(sig.price), reason |-> sig.reason]
    IN  IF sig.type = "BUY" /\ Truthy(sig.stop_loss) /\ Truthy(sig.take_profit)
        THEN base @@ [stop_loss |-> Round2(sig.stop_loss),
                      take_profit |-> Round2(sig.take_profit),
                      risk_reward_ratio |-> sig.risk_reward_ratio]
        ELSE base

\* Faulty variant: every signal is counted, whatever its type.
CountTypeAny(sigs, type) == Len(sigs)

CountType(sigs, type) == Cardinality({k \in 1..Len(sigs) : sigs[k].type = type})

(***************************************************************************)
(* analyze_stock, the chart data: one point per row of the frame, in row   *)
(* order.  row.get('SMA_20', float('nan')) is NaN when the column does not *)
(* exist, and a NaN average adds no key to the point.  The volume of a bar *)
(* is not part of a frame here and is left out of the point.               *)
(***************************************************************************)
RowGet(f, w, i) == IF HasCol(f, w) THEN At(f.cols[w], i) ELSE NaN

\* Faulty variant: both keys are always present, None for an undefined one.
ChartPointAlways(f, i) ==
    [date |-> i, close |-> Round2(Num(At(f.close, i), 1)),
     sma_20 |-> RoundOrNone(RowGet(f, SignalShortCol, i)),
     sma_50 |-> RoundOrNone(RowGet(f, SignalLongCol, i))]

ChartPoint(f, i) ==
    LET chart_point == [date |-> i, close |-> Round2(Num(At(f.close, i), 1))]
        sma_20 == RowGet(f, SignalShortCol, i)
        sma_50 == RowGet(f, SignalLongCol, i)
        with_20 == IF ~IsNa(sma_20)
                   THEN chart_point @@ [sma_20 |-> Round2(sma_20)]
                   ELSE chart_point
    IN  IF ~IsNa(sma_50) THEN with_20 @@ [sma_50 |-> Round2(sma_50)]
        ELSE with_20

ChartData(f) == [k \in 1..Len(f.close) |-> ChartPoint(f, k - 1)]

BuildResponse(f, sigs) ==
    LET sma_20 == Latest(f, SignalShortCol)
        sma_50 == Latest(f, SignalLongCol)
        current_price == Num(At(f.close, Len(f.close) - 1), 1)
        cls == ClassifyTrend(current_price, sma_20, sma_50)
    IN  [status |-> 200,
         current_price |-> Round2(current_price),
         sma_20 |-> RoundOrNone(sma_20),
         sma_50 |-> RoundOrNone(sma_50),
         trend |-> cls.trend,
         trend_strength |-> RoundOrNone(cls.trend_strength),
         data_points |-> Len(f.close),
         signals |-> [k \in 1..Len(sigs) |-> FormatSignal(sigs[k])],
         signals_count |-> [total |-> Len(sigs),
                            buy |-> CountType(sigs, "BUY"),
                            sell |-> CountType(sigs, "SELL")],
         chart_data |-> ChartData(f)]

(***************************************************************************)
(* SimpleIndicators.show_latest_values and analyze_trend: what they print. *)
(* latest.get('SMA_20') is None when the column does not exist.            *)
(***************************************************************************)
NoOutput == [printed |-> FALSE]

LatestOrNone(f, w) ==
    IF HasCol(f, w) THEN At(f.cols[w], Len(f.close) - 1) ELSE PyNone

show_latest_values(f) ==
    IF IsNone(f) THEN NoOutput
    ELSE [printed |-> TRUE,
          close |-> At(f.close, Len(f.close) - 1),
          sma_20 |-> LET v == LatestOrNone(f, SignalShortCol)
                     IN  IF IsNa(v) THEN NaN ELSE v,
          sma_50 |-> LET v == LatestOrNone(f, SignalLongCol)
                     IN  IF IsNa(v) THEN NaN ELSE v]

\* Faulty variant: equal averages under a higher price are "MIXED (Price up)".
CliTrendTies(p, sma_20, sma_50) ==
    IF Gt(p, sma_20) /\ Gt(sma_20, sma_50) THEN "STRONG BULLISH"
    ELSE IF Gt(p, sma_20) /\ Le(sma_20, sma_50) THEN "MIXED (Price up)"
    ELSE IF Lt(p, sma_20) /\ Lt(sma_20, sma_50) THEN "STRONG BEARISH"
    ELSE IF Lt(p, sma_20) /\ Gt(sma_20, sma_50) THEN "MIXED (Price down)"
    ELSE "NEUTRAL"

CliTrend(p, sma_20, sma_50) ==
    IF Gt(p, sma_20) /\ Gt(sma_20, sma_50) THEN "STRONG BULLISH"
    ELSE IF Gt(p, sma_20) /\ Lt(sma_20, sma_50) THEN "MIXED (Price up)"
    ELSE IF Lt(p, sma_20) /\ Lt(sma_20, sma_50) THEN "STRONG BEARISH"
    ELSE IF Lt(p, sma_20) /\ Gt(sma_20, sma_50) THEN "MIXED (Price down)"
    ELSE "NEUTRAL"

analyze_trend(f) ==
    IF IsNone(f) THEN NoOutput
    ELSE LET sma_20 == LatestOrNone(f, SignalShortCol)
             sma_50 == LatestOrNone(f, SignalLongCol)
         IN  IF IsNa(sma_20) \/ IsNa(sma_50)
             THEN [printed |-> TRUE, trend |-> "Not enough data"]
             ELSE [printed |-> TRUE,
                   trend |-> CliTrend(Num(At(f.close, Len(f.close) - 1), 1),
                                      sma_20, sma_50)]

(***************************************************************************)
(* SimpleSignalGenerator.analyze_signal_performance(signal, current_price). *)
(* A date is a day number; today is what datetime.now().date() returned    *)
(* when the method ran, which the method reads itself.  The result is the  *)
(* returned dict: the error dict for a signal that is not a BUY, the nine  *)
(* fields otherwise.  The three status strings are written without their   *)
(* leading symbol.                                                         *)
(***************************************************************************)
\* Faulty variant: only a SELL is refused, other kinds are evaluated.
NotBuySellOnly(signal) == signal.type = "SELL"

\* if signal['type'] != 'BUY'
NotBuy(signal) == signal.type # "BUY"

\* ((current_price - entry_price) / entry_price) * 100
ReturnPct(current_price, entry_price) ==
    Num((current_price.n * entry_price.d - entry_price.n * current_price.d)
            * entry_price.d * 100,
        current_price.d * entry_price.d * entry_price.n)

\* Faulty variant: a price exactly at the target is not yet a win.
PerformanceStatusStrict(current_price, stop_loss, take_profit) ==
    IF Gt(current_price, take_profit)
    THEN [status |-> "TARGET HIT", outcome |-> "WIN"]
    ELSE IF Le(current_price, stop_loss)
    THEN [status |-> "STOPPED OUT", outcome |-> "LOSS"]
    ELSE [status |-> "ACTIVE", outcome |-> "PENDING"]

PerformanceStatus(current_price, stop_loss, take_profit) ==
    IF Ge(current_price, take_profit)
    THEN [status |-> "TARGET HIT", outcome |-> "WIN"]
    ELSE IF Le(current_price, stop_loss)
    THEN [status |-> "STOPPED OUT", outcome |-> "LOSS"]
    ELSE [status |-> "ACTIVE", outcome |-> "PENDING"]

\* (datetime.now().date() - signal['date'].date()).days
DaysSince(today, signal) == today - signal.date

analyze_signal_performance(signal, current_price, today) ==
    IF NotBuy(signal)
    THEN [error |-> "Performance analysis only for BUY signals"]
    ELSE LET entry_price == signal.price
             stop_loss == signal.stop_loss
             take_profit == signal.take_profit
             st == PerformanceStatus(current_price, stop_loss, take_profit)
         IN  [status |-> st.status,
              outcome |-> st.outcome,
              entry_price |-> entry_price,
              current_price |-> current_price,
              current_return_pct |-> ReturnPct(current_price, entry_price),
              stop_loss |-> stop_loss,
              take_profit |-> take_profit,
              days_holding |-> DaysSince(today, signal),
              risk_reward_ratio |-> signal.risk_reward_ratio]

(***************************************************************************)
(* SimpleSignalGenerator.get_latest_signal and get_current_recommendation. *)
(* current_ma_status is a dict with the keys 'sma_20' and 'sma_50', either *)
(* of which may be missing (the value Missing).  dict.get('sma_20') is     *)
(* None for a missing key and dict.get('sma_50', 0) is 0; an order         *)
(* comparison with None raises TypeError and one with NaN is False.  The   *)
(* recommendation strings are written up to the dash, without their        *)
(* leading symbol.                                                         *)
(***************************************************************************)
RecentDays == 5

\* Faulty variant: the oldest signal is taken for the latest.
get_latest_signal_first(signals) ==
    IF Len(signals) = 0 THEN None ELSE signals[1]

get_latest_signal(signals) ==
    IF Len(signals) = 0 THEN None ELSE signals[Len(signals)]

Missing == [t |-> "missing", n |-> 0, d |-> 0]

DictGet(d, key, default) == IF d[key] = Missing THEN default ELSE d[key]

NoSignalRecommendation(current_ma_status) ==
    LET sma_20 == DictGet(current_ma_status, "sma_20", PyNone)
        sma_50 == DictGet(current_ma_status, "sma_50", Num(0, 1))
    IN  IF sma_20.t = "none" \/ sma_50.t = "none" THEN "TypeError"
        ELSE IF sma_20.t = "num" /\ sma_50.t = "num" /\ Gt(sma_20, sma_50)
        THEN "WATCH FOR PULLBACK"
        ELSE "STAY AWAY"

get_current_recommendation(signals, current_ma_status, today) ==
    LET latest_signal == get_latest_signal(signals)
    IN  IF latest_signal = None
        THEN NoSignalRecommendation(current_ma_status)
        ELSE LET days_since == DaysSince(today, latest_signal)
             IN  IF latest_signal.type = "BUY"
                 THEN IF days_since <= RecentDays THEN "RECENT BUY SIGNAL"
                      ELSE "OLD BUY SIGNAL"
                 ELSE IF latest_signal.type = "SELL"
                 THEN IF days_since <= RecentDays THEN "RECENT SELL SIGNAL"
                      ELSE "OLD SELL SIGNAL"
                 ELSE "UNCLEAR"

(***************************************************************************)
(* analyze_stock, the except clauses.  An HTTPException raised inside the  *)
(* try block is re-raised as it is; any other exception becomes an         *)
(* HTTPException with status 500.  The response is the status and detail   *)
(* the client receives.                                                    *)
(***************************************************************************)
HTTPException(status_code, detail) ==
    [kind |-> "HTTPException", status_code |-> status_code, detail |-> detail]

\* Faulty variant: every exception is answered with status 500.
analyze_stock_except_all(exc) ==
    [status |-> 500, detail |-> <<"Analysis failed", exc.kind>>]

analyze_stock_except(exc) ==
    IF exc.kind = "HTTPException"
    THEN [status |-> exc.status_code, detail |-> exc.detail]
    ELSE [status |-> 500, detail |-> <<"Analysis failed", exc.kind>>]

\* raise HTTPException(status_code=404, detail=f"Could not fetch data for {symbol}")
NotFound(symbol) == HTTPException(404, <<"Could not fetch data for", symbol>>)
\* raise HTTPException(status_code=500, detail="Could not calculate indicators")
NoIndicators == HTTPException(500, <<"Could not calculate indicators">>)

(***************************************************************************)
(* add_moving_averages works on result = data.copy(): the frame the caller *)
(* passed is, after the call, what it was before.                          *)
(***************************************************************************)
\* Faulty variant: the columns are added to the caller's frame itself.
InputAfterAveragesInPlace(data, short_window, long_window) ==
    LET r == add_moving_averages(data, short_window, long_window)
    IN  IF r.outcome = "ok" THEN r.frame ELSE data

InputAfterAverages(data, short_window, long_window) == data

(***************************************************************************)
(* State.  One analysis is followed from its input to its result.  The     *)
(* caller is the HTTP handler analyze_stock ("api": the module-level       *)
(* generator and the default windows) or a direct user of the classes      *)
(* ("lib": the tests and the command line, any windows and percentages).   *)
(***************************************************************************)
VARIABLES
    caller,                \* "api" or "lib"
    symbol,                \* the symbol the analysis is asked for
    pc,                    \* position in the analysis
    stop_loss_pct,         \* SimpleSignalGenerator.stop_loss_pct, hundredths
    take_profit_pct,       \* SimpleSignalGenerator.take_profit_pct, hundredths
    data,                  \* the frame handed to add_moving_averages
    short_window,          \* add_moving_averages' short_window argument
    long_window,           \* add_moving_averages' long_window argument
    data_with_indicators,  \* what add_moving_averages returned
    exit_path,             \* the return path find_crossover_signals took
    signals,               \* what find_crossover_signals returned
    response,              \* analyze_stock's HTTP response
    latest_shown,          \* what show_latest_values printed
    trend_shown,           \* what analyze_trend printed
    today,                 \* datetime.now().date() as the last call read it
    perf_signal,           \* analyze_signal_performance's signal argument
    current_price,         \* analyze_signal_performance's current_price
    performance,           \* what analyze_signal_performance returned
    rec_signals,           \* get_current_recommendation's signals argument
    current_ma_status,     \* get_current_recommendation's current_ma_status
    recommendation,        \* what get_current_recommendation returned
    requests               \* the analyses the server is handling together

\* the state of the two methods that evaluate and advise
advisor_vars == <<today, perf_signal, current_price, performance, rec_signals,
                  current_ma_status, recommendation>>

vars == <<caller, symbol, pc, stop_loss_pct, take_profit_pct, data, short_window,
          long_window, data_with_indicators, exit_path, signals, response,
          latest_shown, trend_shown, advisor_vars, requests>>

\* Two requests the server handles together, and the local variables of
\* analyze_stock in each before its first step.
Requests == {"first", "second"}

NewRequest(r) ==
    [pc |-> "start",
     symbol |-> IF r = "first" THEN "AAPL" ELSE "INVALID",
     history |-> <<>>, failed |-> FALSE,
     data |-> None, data_with_indicators |-> None, signals |-> <<>>,
     response |-> [status |-> 0]]

\* GET /api/analyze/{symbol}; the tests of the classes use 'TEST'
Symbols == {"AAPL", "INVALID", "TEST"}

\* SimpleSignalGenerator.__init__ stores the two percentages as given.
Init ==
    /\ caller \in {"api", "lib"}
    /\ symbol \in Symbols
    /\ caller = "lib" => symbol = "TEST"
    /\ pc = "start"
    /\ \E p \in PctPairs :
          /\ caller = "api" => p = <<DefaultStopLossPct, DefaultTakeProfitPct>>
          /\ stop_loss_pct = p[1]
          /\ take_profit_pct = p[2]
    /\ data = None
    /\ short_window = DefaultShortWindow
    /\ long_window = DefaultLongWindow
    /\ data_with_indicators = None
    /\ exit_path = "none"
    /\ signals = <<>>
    /\ response = [status |-> 0]
    /\ latest_shown = NoOutput
    /\ trend_shown = NoOutput
    /\ today = 0
    /\ perf_signal = None
    /\ current_price = PyNone
    /\ performance = None
    /\ rec_signals = <<>>
    /\ current_ma_status = [sma_20 |-> Missing, sma_50 |-> Missing]
    /\ recommendation = "none"
    /\ requests = [r \in Requests |-> NewRequest(r)]

\* DataFetcher.get_stock_data: the history, or None when it is empty or the
\* download failed.  analyze_stock answers None with HTTP 404.
get_stock_data(history, failed) ==
    IF failed \/ Len(history) = 0 THEN None ELSE Frame(history, NoCols)

GetStockData ==
    /\ pc = "start"
    /\ \E history \in SeriesSet, failed \in BOOLEAN :
          /\ data' = get_stock_data(history, failed)
          /\ IF caller = "api" /\ IsNone(data')
             THEN /\ pc' = "http404"
                  /\ response' = analyze_stock_except(NotFound(symbol))
             ELSE /\ pc' = "fetched"
                  /\ UNCHANGED response
    /\ UNCHANGED <<caller, symbol, stop_loss_pct, take_profit_pct, short_window,
                   long_window, data_with_indicators, exit_path, signals,
                   latest_shown, trend_shown,
                   advisor_vars, requests>>

\* A direct caller builds its own frame: None, an empty frame or any series.
TestData ==
    /\ pc = "start"
    /\ caller = "lib"
    /\ \E d \in {None} \cup {Frame(s, NoCols) : s \in SeriesSet} : data' = d
    /\ pc' = "fetched"
    /\ UNCHANGED <<caller, symbol, stop_loss_pct, take_profit_pct, short_window,
                   long_window, data_with_indicators, exit_path, signals,
                   response, latest_shown, trend_shown,
                   advisor_vars, requests>>

\* add_moving_averages; analyze_stock passes no windows and answers a None
\* result with HTTP 500.
AddMovingAverages ==
    /\ pc = "fetched"
    /\ \E w \in WindowPairs :
          /\ caller = "api" => w = <<DefaultShortWindow, DefaultLongWindow>>
          /\ short_window' = w[1]
          /\ long_window' = w[2]
          /\ LET r == add_moving_averages(data, w[1], w[2])
             IN  /\ data_with_indicators' = r.frame
                 /\ data' = InputAfterAverages(data, w[1], w[2])
                 /\ IF caller = "api" /\ r.outcome # "ok"
                    THEN /\ pc' = "http500"
                         /\ response' = analyze_stock_except(
                               IF r.outcome = "raised"
                               THEN [kind |-> "ValueError"]
                               ELSE NoIndicators)
                    ELSE /\ pc' = IF r.outcome = "raised" THEN "raised"
                                  ELSE "indicators"
                         /\ UNCHANGED response
    /\ UNCHANGED <<caller, symbol, stop_loss_pct, take_profit_pct, exit_path,
                   signals, latest_shown, trend_shown, advisor_vars, requests>>

\* find_crossover_signals; analyze_stock turns an exception into HTTP 500.
FindCrossoverSignals ==
    /\ pc = "indicators"
    /\ LET r == find_crossover_signals(data_with_indicators, stop_loss_pct,
                                       take_profit_pct)
       IN  /\ exit_path' = r.exit
           /\ signals' = r.signals
           /\ IF r.exit # "raised"
              THEN pc' = "signals" /\ UNCHANGED response
              ELSE IF caller = "api"
              THEN /\ pc' = "http500"
                   /\ response' = analyze_stock_except(
                                      [kind |-> "ZeroDivisionError"])
              ELSE pc' = "raised" /\ UNCHANGED response
    /\ UNCHANGED <<caller, symbol, stop_loss_pct, take_profit_pct, data, short_window,
                   long_window, data_with_indicators, latest_shown,
                   trend_shown,
                   advisor_vars, requests>>

\* analyze_stock, steps 4 onwards: trend, formatted signals, counts.
Respond ==
    /\ pc = "signals"
    /\ caller = "api"
    /\ response' = BuildResponse(data_with_indicators, signals)
    /\ pc' = "http200"
    /\ UNCHANGED <<caller, symbol, stop_loss_pct, take_profit_pct, data, short_window,
                   long_window, data_with_indicators, exit_path, signals,
                   latest_shown, trend_shown,
                   advisor_vars, requests>>

\* indicators.show_latest_values(data_with_indicators, symbol)
ShowLatestValues ==
    /\ pc = "signals"
    /\ caller = "lib"
    /\ latest_shown' = show_latest_values(data_with_indicators)
    /\ pc' = "shown"
    /\ UNCHANGED <<caller, symbol, stop_loss_pct, take_profit_pct, data, short_window,
                   long_window, data_with_indicators, exit_path, signals,
                   response, trend_shown,
                   advisor_vars, requests>>

\* indicators.analyze_trend(data_with_indicators, symbol)
AnalyzeTrend ==
    /\ pc = "shown"
    /\ trend_shown' = analyze_trend(data_with_indicators)
    /\ pc' = "analyzed"
    /\ UNCHANGED <<caller, symbol, stop_loss_pct, take_profit_pct, data, short_window,
                   long_window, data_with_indicators, exit_path, signals,
                   response, latest_shown,
                   advisor_vars, requests>>

Next ==
    \/ GetStockData
    \/ TestData
    \/ AddMovingAverages
    \/ FindCrossoverSignals
    \/ Respond
    \/ ShowLatestValues
    \/ AnalyzeTrend

Spec == Init /\ [][Next]_vars

(***************************************************************************)
(* The evaluator and the advisor called on their own, as the tests and the *)
(* command line call them: any signal, any price, any list, any status,    *)
(* whatever the date is.                                                   *)
(***************************************************************************)
SignalDays == 0..MaxSignalDay
ClockDays == 0..MaxClockDay
EntryPrices == {Num(100, 1)} \cup {Num(p, 1) : p \in 1..MaxPrice}
EvalPrices ==
    {Num(p, 1) : p \in {92, 95, 102, 105, 110}} \cup {Num(p, 1) : p \in 1..MaxPrice}

\* the BUY signals a generator with these percentages can create
BuySignals(sl, tp) ==
    IF BuyRaises(sl) THEN {}
    ELSE {create_buy_signal(d, p, sl, tp) : d \in SignalDays, p \in EntryPrices}

SellSignals == {create_sell_signal(d, Num(100, 1)) : d \in SignalDays}

\* test_edge_cases: sell_signal = {'type': 'SELL', 'price': 100}
BareSellSignal == [type |-> "SELL", price |-> Num(100, 1)]

\* a hand-made signal of another kind, with every field a number
HoldSignals ==
    {[date |-> d, type |-> "HOLD", price |-> Num(100, 1),
      stop_loss |-> Num(95, 1), take_profit |-> Num(110, 1),
      risk_reward_ratio |-> Num(2, 1), reason |-> "hand-made"] :
        d \in SignalDays}

EvalSignals(sl, tp) ==
    BuySignals(sl, tp) \cup SellSignals \cup HoldSignals \cup {BareSellSignal}

\* lists as find_crossover_signals builds them: dates strictly ascending
SignalLists(sl, tp) ==
    LET sigs == {create_buy_signal(d, Num(100, 1), sl, tp) :
                     d \in IF BuyRaises(sl) THEN {} ELSE SignalDays}
                \cup SellSignals
    IN  {l \in UNION {[1..n -> sigs] : n \in 0..MaxSignals} :
            \A k \in 1..(Len(l) - 1) : l[k].date < l[k + 1].date}

MaValues == {Missing, PyNone, NaN, Num(1, 1), Num(2, 1)}
MaStatuses == [sma_20 : MaValues, sma_50 : MaValues]

AnalyzeSignalPerformance ==
    /\ pc = "start"
    /\ caller = "lib"
    /\ \E signal \in EvalSignals(stop_loss_pct, take_profit_pct),
          price \in EvalPrices, now \in ClockDays :
          /\ perf_signal' = signal
          /\ current_price' = price
          /\ today' = now
          /\ performance' = analyze_signal_performance(signal, price, now)
    /\ pc' = "evaluated"
    /\ UNCHANGED <<caller, symbol, stop_loss_pct, take_profit_pct, data, short_window,
                   long_window, data_with_indicators, exit_path, signals,
                   response, latest_shown, trend_shown, rec_signals,
                   current_ma_status, recommendation, requests>>

GetCurrentRecommendation ==
    /\ pc = "start"
    /\ caller = "lib"
    /\ \E sigs \in SignalLists(stop_loss_pct, take_profit_pct),
          status \in MaStatuses, now \in ClockDays :
          /\ rec_signals' = sigs
          /\ current_ma_status' = status
          /\ today' = now
          /\ recommendation' = get_current_recommendation(sigs, status, now)
    /\ pc' = "recommended"
    /\ UNCHANGED <<caller, symbol, stop_loss_pct, take_profit_pct, data, short_window,
                   long_window, data_with_indicators, exit_path, signals,
                   response, latest_shown, trend_shown, perf_signal,
                   current_price, performance, requests>>

InitAdvisor == Init /\ caller = "lib"

NextAdvisor ==
    \/ AnalyzeSignalPerformance
    \/ GetCurrentRecommendation

SpecAdvisor == InitAdvisor /\ [][NextAdvisor]_vars

(***************************************************************************)
(* Two requests handled together by the one module: data_fetcher,          *)
(* indicators and signal_generator are module-level objects, the frames    *)
(* and the signal list are local variables of each call of analyze_stock.  *)
(* A step of a request is one of the handler's four steps; the steps of    *)
(* the two requests interleave in any order.  history and failed are what  *)
(* the data provider answers to the request.                               *)
(***************************************************************************)
\* the histories the provider answers with: none, or a series of
\* BaseLen .. BaseLen + 2 bars
ProviderSeries ==
    {s \in SeriesSet : Len(s) = 0 \/ (BaseLen <= Len(s) /\ Len(s) <= BaseLen + 2)}

\* analyze_stock run from its first line to its response, on its own
analyze_stock(sym, history, failed) ==
    LET d == get_stock_data(history, failed)
        ind == add_moving_averages(d, DefaultShortWindow, DefaultLongWindow)
        found == find_crossover_signals(ind.frame, stop_loss_pct,
                                        take_profit_pct)
    IN  IF IsNone(d) THEN analyze_stock_except(NotFound(sym))
        ELSE IF ind.outcome = "raised"
        THEN analyze_stock_except([kind |-> "ValueError"])
        ELSE IF ind.outcome = "none" THEN analyze_stock_except(NoIndicators)
        ELSE IF found.exit = "raised"
        THEN analyze_stock_except([kind |-> "ZeroDivisionError"])
        ELSE BuildResponse(ind.frame, found.signals)

\* Faulty variant: the fetched frame is kept in a slot of the module, where
\* the other request's fetch overwrites it.
FetchedDataShared(r) ==
    LET other == CHOOSE o \in Requests : o # r
    IN  IF requests[other].pc # "start" /\ ~IsNone(requests[other].data)
        THEN requests[other].data
        ELSE requests[r].data

\* data, the local variable of the request's call
FetchedData(r) == requests[r].data

\* Step 1: data = data_fetcher.get_stock_data(symbol, period)
RequestFetch(r) ==
    /\ requests[r].pc = "start"
    /\ \E history \in ProviderSeries, failed \in BOOLEAN :
          LET d == get_stock_data(history, failed)
          IN  requests' = [requests EXCEPT ![r] =
                 [requests[r] EXCEPT
                     !.history = history,
                     !.failed = failed,
                     !.data = d,
                     !.pc = IF IsNone(d) THEN "http404" ELSE "fetched",
                     !.response =
                         IF IsNone(d)
                         THEN analyze_stock_except(NotFound(requests[r].symbol))
                         ELSE requests[r].response]]

\* Step 2: data_with_indicators = indicators.add_moving_averages(data)
RequestIndicators(r) ==
    /\ requests[r].pc = "fetched"
    /\ LET ind == add_moving_averages(FetchedData(r), DefaultShortWindow,
                                      DefaultLongWindow)
       IN  requests' = [requests EXCEPT ![r] =
              [requests[r] EXCEPT
                  !.data_with_indicators = ind.frame,
                  !.pc = IF ind.outcome = "ok" THEN "indicators"
                         ELSE "http500",
                  !.response =
                      IF ind.outcome = "ok" THEN requests[r].response
                      ELSE IF ind.outcome = "raised"
                      THEN analyze_stock_except([kind |-> "ValueError"])
                      ELSE analyze_stock_except(NoIndicators)]]

\* Step 3: signals = signal_generator.find_crossover_signals(...)
RequestSignals(r) ==
    /\ requests[r].pc = "indicators"
    /\ LET found == find_crossover_signals(requests[r].data_with_indicators,
                                           stop_loss_pct, take_profit_pct)
       IN  requests' = [requests EXCEPT ![r] =
              [requests[r] EXCEPT
                  !.signals = found.signals,
                  !.pc = IF found.exit = "raised" THEN "http500"
                         ELSE "signals",
                  !.response =
                      IF found.exit = "raised"
                      THEN analyze_stock_except([kind |-> "ZeroDivisionError"])
                      ELSE requests[r].response]]

\* Step 4 to the return
RequestRespond(r) ==
    /\ requests[r].pc = "signals"
    /\ requests' = [requests EXCEPT ![r] =
          [requests[r] EXCEPT
              !.response = BuildResponse(requests[r].data_with_indicators,
                                         requests[r].signals),
              !.pc = "http200"]]

RequestStep(r) ==
    /\ \/ RequestFetch(r)
       \/ RequestIndicators(r)
       \/ RequestSignals(r)
       \/ RequestRespond(r)
    /\ UNCHANGED <<caller, symbol, pc, stop_loss_pct, take_profit_pct, data,
                   short_window, long_window, data_with_indicators, exit_path,
                   signals, response, latest_shown, trend_shown, advisor_vars>>

InitServer == Init /\ caller = "api" /\ symbol = "AAPL"

NextServer == \E r \in Requests : RequestStep(r)

SpecServer == InitServer /\ [][NextServer]_vars

(***************************************************************************)
(* Vocabulary of the properties.                                           *)
(***************************************************************************)
\* add_moving_averages has been called and has returned or raised
IndicatorsCalled == pc \notin {"start", "fetched", "http404"}
\* add_moving_averages returned a frame
HaveFrame == IndicatorsCalled /\ ~IsNone(data_with_indicators)
\* find_crossover_signals has returned a list
Returned == exit_path \in {"insufficient", "missing", "scanned"}
\* the windows satisfy the documented contract 0 < fast < slow
ValidWindows == 0 < short_window /\ short_window < long_window
NBars == Len(data_with_indicators.close)
\* the averages the frame was built with, at bar i
FastAt(i) == At(data_with_indicators.cols[short_window], i)
SlowAt(i) == At(data_with_indicators.cols[long_window], i)
DefinedPair(i) ==
    /\ ~IsNa(FastAt(i - 1)) /\ ~IsNa(SlowAt(i - 1))
    /\ ~IsNa(FastAt(i)) /\ ~IsNa(SlowAt(i))
CrossesUp(i) ==
    DefinedPair(i) /\ Le(FastAt(i - 1), SlowAt(i - 1)) /\ Gt(FastAt(i), SlowAt(i))
CrossesDown(i) ==
    DefinedPair(i) /\ Ge(FastAt(i - 1), SlowAt(i - 1)) /\ Lt(FastAt(i), SlowAt(i))
Emitted(type, i) ==
    \E k \in 1..Len(signals) : signals[k].type = type /\ signals[k].date = i
\* the sum of the closes of bars lo..hi, counted one unit at a time
UnitSum(close, lo, hi) ==
    Cardinality(UNION {{<<k, j>> : j \in 1..At(close, k)} : k \in lo..hi})

(***************************************************************************)
(* C1.  Crossover completeness: in a series that find_crossover_signals    *)
(* scanned, for every bar i >= 1 a BUY dated i is in the result exactly    *)
(* when both averages are defined on bars i-1 and i, fast <= slow on i-1   *)
(* and fast > slow on i; a SELL dated i exactly when both are defined,     *)
(* fast >= slow on i-1 and fast < slow on i; and every signal is dated at  *)
(* such a bar.                                                             *)
(***************************************************************************)
C1_CrossoverCompleteness ==
    exit_path = "scanned" =>
        /\ \A i \in 1..(NBars - 1) :
              /\ Emitted("BUY", i) <=> CrossesUp(i)
              /\ Emitted("SELL", i) <=> CrossesDown(i)
        /\ \A k \in 1..Len(signals) :
              /\ signals[k].date \in 1..(NBars - 1)
              /\ signals[k].type \in {"BUY", "SELL"}

\* a scanned series with a BUY from a tie (fast = slow on the day before)
\* followed by a SELL
C1_Witness ==
    /\ exit_path = "scanned"
    /\ Len(signals) = 2
    /\ signals[1].type = "BUY"
    /\ signals[2].type = "SELL"
    /\ Eq(FastAt(signals[1].date - 1), SlowAt(signals[1].date - 1))

EntirelyUndefined(f, w) == \A i \in 0..(Len(f.close) - 1) : IsNa(At(f.cols[w], i))

C3_InsufficientExitIff ==
    (Returned /\ ValidWindows) =>
        (exit_path \in {"insufficient", "missing"}
         <=> \/ IsNone(data_with_indicators)
             \/ NBars < long_window + 1
             \/ ~HasCol(data_with_indicators, short_window)
             \/ ~HasCol(data_with_indicators, long_window)
             \/ EntirelyUndefined(data_with_indicators, short_window)
             \/ EntirelyUndefined(data_with_indicators, long_window))

(***************************************************************************)
(* C4 as stated.  For every series of 1 <= N <= slowWindow bars the        *)
(* analysis answers with an empty signal list and the trend                *)
(* INSUFFICIENT_DATA of strength 0, and no exception (no HTTP 500).        *)
(***************************************************************************)
ShortSeries(maxBars) ==
    /\ caller = "api"
    /\ ~IsNone(data)
    /\ Len(data.close) >= 1
    /\ Len(data.close) <= maxBars

C4_ShortSeriesInsufficient ==
    ShortSeries(DefaultLongWindow) =>
        /\ pc # "http500"
        /\ pc = "http200" =>
              /\ response.signals = <<>>
              /\ response.trend = "INSUFFICIENT_DATA"
              /\ Eq(response.trend_strength, Num(0, 1))

(***************************************************************************)
(* C4 as amended.  For every series of 1 <= N <= slowWindow - 1 bars the   *)
(* analysis answers with an empty signal list and the trend                *)
(* INSUFFICIENT_DATA of strength 0; for N = slowWindow the signal list is  *)
(* empty as well but the slow average is defined on the latest bar, so the *)
(* trend is one of the four directional labels; no exception in either     *)
(* case.                                                                   *)
(***************************************************************************)
C4_ShortSeriesAmended ==
    /\ ShortSeries(DefaultLongWindow - 1) =>
          /\ pc # "http500"
          /\ pc = "http200" =>
                /\ response.signals = <<>>
                /\ response.trend = "INSUFFICIENT_DATA"
                /\ Eq(response.trend_strength, Num(0, 1))
    /\ (ShortSeries(DefaultLongWindow) /\ Len(data.close) = DefaultLongWindow) =>
          /\ pc # "http500"
          /\ pc = "http200" =>
                /\ response.signals = <<>>
                /\ response.trend \in {"STRONG_BULLISH", "MIXED_BULLISH",
                                       "STRONG_BEARISH", "MIXED_BEARISH"}

\* a response to a series with the fast average defined and the slow one not
C4_Witness ==
    /\ pc = "http200"
    /\ response.data_points >= DefaultShortWindow
    /\ response.data_points < DefaultLongWindow
    /\ response.trend = "INSUFFICIENT_DATA"

(***************************************************************************)
(* C5.  In the frame add_moving_averages returns for windows               *)
(* 0 < fast < slow, the fast average is defined at bar i exactly when      *)
(* i >= fast - 1 and the slow one exactly when i >= slow - 1; so the fast  *)
(* column has at least as many defined values as the slow column.          *)
(***************************************************************************)
DefinedCount(w) ==
    Cardinality({i \in 0..(NBars - 1) : ~IsNa(At(data_with_indicators.cols[w], i))})

C5_DefinedFromWindowMinusOne ==
    (HaveFrame /\ ValidWindows) =>
        /\ \A i \in 0..(NBars - 1) :
              /\ ~IsNa(FastAt(i)) <=> i >= short_window - 1
              /\ ~IsNa(SlowAt(i)) <=> i >= long_window - 1
        /\ DefinedCount(short_window) >= DefinedCount(long_window)

\* a frame in which the slow average is undefined on some bars and defined
\* on others, and the fast average is defined on more bars
C5_Witness ==
    /\ HaveFrame
    /\ ValidWindows
    /\ DefinedCount(long_window) > 0
    /\ DefinedCount(long_window) < DefinedCount(short_window)
    /\ DefinedCount(short_window) < NBars

(***************************************************************************)
(* C6.  Every defined moving-average value at bar i with window W is the   *)
(* sum of the closes of bars i-W+1..i divided by W, and it is the value    *)
(* the same computation gives on the series cut after bar i (no bar after  *)
(* i is read).  On closes 10, 12, ..., 28 with W = 3 the value at bar 4    *)
(* is 16.                                                                  *)
(***************************************************************************)
Prefix(close, n) == SubSeq(close, 1, n)

MeanOfWindow(f, w, i) ==
    LET v == At(f.cols[w], i)
    IN  ~IsNa(v) =>
           /\ i - w + 1 >= 0
           /\ v.d > 0
           /\ v.n * w = UnitSum(f.close, i - w + 1, i) * v.d
           /\ v = At(WithAverages(Frame(Prefix(f.close, i + 1), NoCols), w, w).cols[w], i)

C6_MeanOfTrailingWindow ==
    /\ pc = "indicators" /\ HaveFrame =>
          \A w \in {short_window, long_window} :
             \A i \in 0..(NBars - 1) : MeanOfWindow(data_with_indicators, w, i)
    /\ Eq(At(WithAverages(Frame(<<10, 12, 14, 16, 18, 20, 22, 24, 26, 28>>, NoCols),
                          3, 5).cols[3], 4),
          Num(16, 1))

\* a frame whose last two closes differ, with both averages defined on the
\* bar before the last
C6_Witness ==
    /\ pc = "indicators"
    /\ HaveFrame
    /\ ValidWindows
    /\ NBars > long_window
    /\ At(data_with_indicators.close, NBars - 1) # At(data_with_indicators.close, NBars - 2)
    /\ ~IsNa(SlowAt(NBars - 2))

(***************************************************************************)
(* C7.  add_moving_averages rejects invalid windows: called with           *)
(* fastWindow <= 0 or slowWindow <= fastWindow it produces no frame.       *)
(***************************************************************************)
C7_InvalidWindowsRejected ==
    (IndicatorsCalled /\ (short_window <= 0 \/ long_window <= short_window))
    => IsNone(data_with_indicators)

(***************************************************************************)
(* C8.  add_moving_averages given None or an empty frame returns None      *)
(* without raising, and show_latest_values and analyze_trend given that    *)
(* None print nothing and raise nothing.                                   *)
(***************************************************************************)
MissingInput == IsNone(data) \/ IsEmpty(data)

C8_MissingSeriesGivesNone ==
    (IndicatorsCalled /\ MissingInput) =>
        /\ IsNone(data_with_indicators)
        /\ pc # "raised"
        /\ latest_shown = NoOutput
        /\ trend_shown = NoOutput

\* both display operations have run on the None that an empty frame gave
C8_Witness ==
    /\ pc = "analyzed"
    /\ ~IsNone(data)
    /\ IsEmpty(data)
    /\ IsNone(data_with_indicators)

(***************************************************************************)
(* C9.  Every BUY signal in the returned list, for the bar with close p,   *)
(* has price = p, stop_loss = p * (1 - stopLossPct),                       *)
(* take_profit = p * (1 + takeProfitPct) and                               *)
(* risk_reward_ratio = takeProfitPct / stopLossPct.  With p = 100, 5% and  *)
(* 10% these are 95, 110 and 2.                                            *)
(***************************************************************************)
BuyFieldsOf(sig, p, sl, tp) ==
    /\ sig.price.n = p * sig.price.d
    /\ sig.stop_loss.t = "num"
    /\ sig.stop_loss.n * 100 = p * (100 - sl) * sig.stop_loss.d
    /\ sig.take_profit.t = "num"
    /\ sig.take_profit.n * 100 = p * (100 + tp) * sig.take_profit.d
    /\ sig.risk_reward_ratio.t = "num"
    /\ sig.risk_reward_ratio.n * sl = tp * sig.risk_reward_ratio.d

C9_BuyRiskFields ==
    /\ Returned =>
          \A k \in 1..Len(signals) :
             signals[k].type = "BUY" =>
                BuyFieldsOf(signals[k],
                            At(data_with_indicators.close, signals[k].date),
                            stop_loss_pct, take_profit_pct)
    /\ LET sig == create_buy_signal(0, Num(100, 1), 5, 10)
       IN  /\ Eq(sig.stop_loss, Num(95, 1))
           /\ Eq(sig.take_profit, Num(110, 1))
           /\ Eq(sig.risk_reward_ratio, Num(2, 1))

\* a BUY signal at a bar whose close is not the base price, from a generator
\* with the default percentages
C9_Witness ==
    /\ Returned
    /\ stop_loss_pct = DefaultStopLossPct
    /\ \E k \in 1..Len(signals) :
          /\ signals[k].type = "BUY"
          /\ At(data_with_indicators.close, signals[k].date) = MaxPrice

(***************************************************************************)
(* C10.  Every BUY signal any generator emits, and every BUY signal of an  *)
(* analysis response, carries stop_loss, take_profit and risk_reward_ratio *)
(* with 0 < stop_loss < price < take_profit and risk_reward_ratio > 0.     *)
(***************************************************************************)
Zero == Num(0, 1)

RiskOrdered(price, stop_loss, take_profit, rr) ==
    /\ stop_loss.t = "num" /\ take_profit.t = "num" /\ rr.t = "num"
    /\ Lt(Zero, stop_loss)
    /\ Lt(stop_loss, price)
    /\ Lt(price, take_profit)
    /\ Lt(Zero, rr)

C10_BuyRiskOrdered ==
    /\ Returned =>
          \A k \in 1..Len(signals) :
             signals[k].type = "BUY" =>
                RiskOrdered(signals[k].price, signals[k].stop_loss,
                            signals[k].take_profit, signals[k].risk_reward_ratio)
    /\ pc = "http200" =>
          \A k \in 1..Len(response.signals) :
             response.signals[k].type = "BUY" =>
                /\ {"stop_loss", "take_profit", "risk_reward_ratio"}
                      \subseteq DOMAIN response.signals[k]
                /\ RiskOrdered(response.signals[k].price,
                               response.signals[k].stop_loss,
                               response.signals[k].take_profit,
                               response.signals[k].risk_reward_ratio)

(***************************************************************************)
(* C11.  A generator whose stop_loss_pct or take_profit_pct is not         *)
(* positive is rejected when it is constructed: find_crossover_signals     *)
(* never runs with such a percentage, so it never reaches the division by  *)
(* a zero stop_loss_pct.                                                   *)
(***************************************************************************)
C11_RiskPercentagesValidated ==
    exit_path # "none" =>
       /\ stop_loss_pct > 0
       /\ take_profit_pct > 0
       /\ exit_path # "raised"

(***************************************************************************)
(* Vocabulary of the evaluator and the advisor.                            *)
(***************************************************************************)
Evaluated == pc = "evaluated"
BuyEvaluated == Evaluated /\ perf_signal.type = "BUY"
Recommended == pc = "recommended"
\* a >= b and a <= b on positive-denominator fractions
AtLeast(a, b) == a.n * b.d >= b.n * a.d
AtMost(a, b) == a.n * b.d <= b.n * a.d
Is(v, k) == v.n = k * v.d

(***************************************************************************)
(* C12.  The performance of a BUY signal at a current price: a price at or *)
(* above take_profit is TARGET HIT / WIN; otherwise a price at or below    *)
(* stop_loss is STOPPED OUT / LOSS; otherwise ACTIVE / PENDING.  With      *)
(* entry 100, stop 95 and target 110, the price 110 wins, 95 loses and 102 *)
(* is pending.  The return is (current - entry) / entry * 100.             *)
(***************************************************************************)
C12_BuyPerformance ==
    BuyEvaluated =>
       LET cp == current_price
           e == perf_signal.price
           sl == perf_signal.stop_loss
           tp == perf_signal.take_profit
           r == performance.current_return_pct
           result == <<performance.status, performance.outcome>>
       IN  /\ AtLeast(cp, tp) => result = <<"TARGET HIT", "WIN">>
           /\ ~AtLeast(cp, tp) /\ AtMost(cp, sl) =>
                 result = <<"STOPPED OUT", "LOSS">>
           /\ ~AtLeast(cp, tp) /\ ~AtMost(cp, sl) =>
                 result = <<"ACTIVE", "PENDING">>
           /\ Is(e, 100) /\ Is(sl, 95) /\ Is(tp, 110) =>
                 /\ Is(cp, 110) => performance.outcome = "WIN"
                 /\ Is(cp, 95) => performance.outcome = "LOSS"
                 /\ Is(cp, 102) => performance.outcome = "PENDING"
           /\ r.t = "num"
           /\ r.n * (e.n * cp.d) = r.d * 100 * (cp.n * e.d - e.n * cp.d)

\* a price exactly at the target of the 100 / 95 / 110 signal wins
C12_Witness ==
    /\ BuyEvaluated
    /\ Is(perf_signal.price, 100) /\ Is(perf_signal.take_profit, 110)
    /\ Is(current_price, 110)
    /\ performance.outcome = "WIN"
    /\ Is(performance.current_return_pct, 10)

(***************************************************************************)
(* C13.  Evaluating a signal that is not a BUY gives the error result at   *)
(* every current price: the result has no status, outcome or return field, *)
(* and the signal needs no risk or date field for it.                      *)
(***************************************************************************)
C13_NonBuyIsError ==
    Evaluated /\ perf_signal.type # "BUY" => DOMAIN performance = {"error"}

\* the SELL signal that has only a type and a price is answered so
C13_Witness ==
    /\ Evaluated
    /\ perf_signal = BareSellSignal
    /\ DOMAIN performance = {"error"}

(***************************************************************************)
(* C14.  days_holding is a non-negative whole number, the reference date   *)
(* minus the signal's date; a reference date before the signal's date is   *)
(* refused and never gives a negative days_holding.                        *)
(***************************************************************************)
C14_DaysHoldingNonNegative ==
    Evaluated /\ "days_holding" \in DOMAIN performance =>
       /\ performance.days_holding = today - perf_signal.date
       /\ performance.days_holding >= 0

(***************************************************************************)
(* C15.  The evaluation and the recommendation are functions of their      *)
(* explicit inputs alone: the same call made while the clock reads any     *)
(* other day returns the same result.                                      *)
(***************************************************************************)
C15_ClockIndependent ==
    /\ Evaluated =>
          \A now \in ClockDays :
             analyze_signal_performance(perf_signal, current_price, now)
                = performance
    /\ Recommended =>
          \A now \in ClockDays :
             get_current_recommendation(rec_signals, current_ma_status, now)
                = recommendation

(***************************************************************************)
(* C16.  With an empty signal list the recommendation is WATCH FOR         *)
(* PULLBACK when both averages are numbers and fast > slow, and STAY AWAY  *)
(* otherwise; when either average is missing, None or NaN it is STAY AWAY  *)
(* and nothing is raised.                                                  *)
(***************************************************************************)
C16_NoSignalRecommendation ==
    Recommended /\ Len(rec_signals) = 0 =>
       LET f == current_ma_status.sma_20
           s == current_ma_status.sma_50
       IN  IF f.t = "num" /\ s.t = "num"
           THEN recommendation = IF f.n * s.d > s.n * f.d
                                 THEN "WATCH FOR PULLBACK" ELSE "STAY AWAY"
           ELSE recommendation = "STAY AWAY"

(***************************************************************************)
(* C17.  With a non-empty list the recommendation is decided by the last   *)
(* signal and its age in days on the day of the call: a BUY of at most 5   *)
(* days is RECENT BUY SIGNAL and an older one OLD BUY SIGNAL, a SELL of at *)
(* most 5 days is RECENT SELL SIGNAL and an older one OLD SELL SIGNAL.     *)
(* Earlier signals and the averages have no influence.                     *)
(***************************************************************************)
C17_LastSignalDecides ==
    Recommended /\ Len(rec_signals) > 0 =>
       LET last == rec_signals[Len(rec_signals)]
           age == today - last.date
       IN  /\ last.type = "BUY" /\ age <= 5 =>
                 recommendation = "RECENT BUY SIGNAL"
           /\ last.type = "BUY" /\ age > 5 =>
                 recommendation = "OLD BUY SIGNAL"
           /\ last.type = "SELL" /\ age <= 5 =>
                 recommendation = "RECENT SELL SIGNAL"
           /\ last.type = "SELL" /\ age > 5 =>
                 recommendation = "OLD SELL SIGNAL"

\* a BUY exactly 5 days old that follows a SELL is recent
C17_Witness ==
    /\ Recommended
    /\ Len(rec_signals) = 2
    /\ rec_signals[1].type = "SELL"
    /\ rec_signals[2].type = "BUY"
    /\ today - rec_signals[2].date = 5
    /\ recommendation = "RECENT BUY SIGNAL"

(***************************************************************************)
(* C18.  When both averages of the latest bar are defined, the response's  *)
(* trend is the first that matches of: price > fast > slow STRONG_BULLISH  *)
(* with strength (fast - slow) / slow * 100; price > fast and fast < slow  *)
(* MIXED_BULLISH with (slow - fast) / slow * 100; price < fast < slow      *)
(* STRONG_BEARISH with (slow - fast) / slow * 100; anything else, ties     *)
(* included, MIXED_BEARISH with (fast - slow) / slow * 100.                *)
(***************************************************************************)
LastClose == Num(At(data_with_indicators.close, NBars - 1), 1)
LastFast == At(data_with_indicators.cols[SignalShortCol], NBars - 1)
LastSlow == At(data_with_indicators.cols[SignalLongCol], NBars - 1)
Above(a, b) == a.n * b.d > b.n * a.d
\* (a - b) / slow * 100, rounded to hundredths as the response reports it
PctOfSlow(a, b, slow) ==
    Round2(Num((a.n * b.d - b.n * a.d) * slow.d * 100, a.d * b.d * slow.n))

C18_TrendPartition ==
    pc = "http200" /\ ~IsNa(LastFast) /\ ~IsNa(LastSlow) =>
       LET p == LastClose
           f == LastFast
           s == LastSlow
           result == <<response.trend, response.trend_strength>>
           up == PctOfSlow(f, s, s)
           down == PctOfSlow(s, f, s)
       IN  /\ Above(p, f) /\ Above(f, s) => result = <<"STRONG_BULLISH", up>>
           /\ Above(p, f) /\ Above(s, f) => result = <<"MIXED_BULLISH", down>>
           /\ Above(f, p) /\ Above(s, f) => result = <<"STRONG_BEARISH", down>>
           /\ ~Above(p, f) /\ ~Above(f, p) => result = <<"MIXED_BEARISH", up>>
           /\ ~Above(f, s) /\ ~Above(s, f) => result = <<"MIXED_BEARISH", up>>
           /\ Above(f, p) /\ Above(f, s) => result = <<"MIXED_BEARISH", up>>

\* equal averages under a higher price: the tie is MIXED_BEARISH
C18_Witness ==
    /\ pc = "http200"
    /\ ~IsNa(LastFast) /\ ~IsNa(LastSlow)
    /\ Above(LastClose, LastFast)
    /\ ~Above(LastFast, LastSlow) /\ ~Above(LastSlow, LastFast)
    /\ response.trend = "MIXED_BEARISH"

(***************************************************************************)
(* C19.  When the fast or the slow average of the latest bar is undefined, *)
(* the response's trend is INSUFFICIENT_DATA with strength 0, never a      *)
(* directional label, and the undefined average is reported as null.       *)
(***************************************************************************)
C19_UndefinedAverageInsufficient ==
    pc = "http200" /\ (IsNa(LastFast) \/ IsNa(LastSlow)) =>
       /\ response.trend = "INSUFFICIENT_DATA"
       /\ response.trend_strength.t = "num"
       /\ response.trend_strength.n = 0
       /\ IsNa(LastFast) => response.sma_20 = PyNone
       /\ IsNa(LastSlow) => response.sma_50 = PyNone

\* a series with a fast average and no slow average
C19_Witness ==
    /\ pc = "http200"
    /\ ~IsNa(LastFast) /\ IsNa(LastSlow)
    /\ response.trend = "INSUFFICIENT_DATA"
    /\ response.sma_20.t = "num"
    /\ response.sma_50 = PyNone

(***************************************************************************)
(* C20.  The signals find_crossover_signals returns are in strictly        *)
(* ascending date order: at most one signal per bar, no bar with both a    *)
(* BUY and a SELL, no two signals with the same date.                      *)
(***************************************************************************)
C20_SignalsStrictlyAscending ==
    Returned =>
       \A j, k \in 1..Len(signals) :
          j < k => signals[j].date < signals[k].date

\* a list of two signals
C20_Witness ==
    /\ exit_path = "scanned"
    /\ Len(signals) >= 2
    /\ signals[1].date < signals[2].date

(***************************************************************************)
(* C21.  In every analysis response signals_count.total is buy + sell, and *)
(* total, buy and sell are the length of the returned signals list and its *)
(* numbers of BUY and of SELL entries; every returned signal is a BUY or a *)
(* SELL.                                                                   *)
(***************************************************************************)
NumberOf(type) ==
    Cardinality({k \in 1..Len(response.signals) : response.signals[k].type = type})

C21_SignalCounts ==
    pc = "http200" =>
       /\ response.signals_count.total
             = response.signals_count.buy + response.signals_count.sell
       /\ response.signals_count.total = Len(response.signals)
       /\ response.signals_count.buy = NumberOf("BUY")
       /\ response.signals_count.sell = NumberOf("SELL")
       /\ \A k \in 1..Len(response.signals) :
             response.signals[k].type \in {"BUY", "SELL"}

\* a response with a BUY and a SELL
C21_Witness ==
    /\ pc = "http200"
    /\ response.signals_count.buy >= 1
    /\ response.signals_count.sell >= 1
    /\ response.signals_count.total = Len(response.signals)

(***************************************************************************)
(* C24.  A SELL signal carries no risk fields: in every list the detector  *)
(* returns its stop_loss, take_profit and risk_reward_ratio are None, and  *)
(* no SELL entry of an analysis response has any of the three fields.      *)
(***************************************************************************)
RiskFields == {"stop_loss", "take_profit", "risk_reward_ratio"}

C24_SellHasNoRiskFields ==
    /\ Returned =>
          \A k \in 1..Len(signals) :
             signals[k].type = "SELL" =>
                /\ signals[k].stop_loss = PyNone
                /\ signals[k].take_profit = PyNone
                /\ signals[k].risk_reward_ratio = PyNone
    /\ pc = "http200" =>
          \A k \in 1..Len(response.signals) :
             response.signals[k].type = "SELL" =>
                DOMAIN response.signals[k] \cap RiskFields = {}

\* a response with a SELL entry
C24_Witness ==
    /\ pc = "http200"
    /\ \E k \in 1..Len(response.signals) :
          /\ response.signals[k].type = "SELL"
          /\ signals[k].stop_loss = PyNone
          /\ "stop_loss" \notin DOMAIN response.signals[k]

(***************************************************************************)
(* C27.  No signal is dated at a bar with index below the slow window: the *)
(* first bar with a slow average has an undefined predecessor.  A series   *)
(* of N bars so yields at most N - slowWindow signals, and between 0 and   *)
(* N - 1.                                                                  *)
(***************************************************************************)
C27_NoSignalBeforeSlowWindow ==
    Returned /\ Len(signals) > 0 =>
       /\ \A k \in 1..Len(signals) : signals[k].date >= long_window
       /\ Len(signals) <= NBars - long_window
       /\ Len(signals) <= NBars - 1

\* a signal on the first bar that can carry one
C27_Witness ==
    /\ exit_path = "scanned"
    /\ Len(signals) > 0
    /\ signals[1].date = long_window

(***************************************************************************)
(* C28.  In every list find_crossover_signals returns, consecutive signals *)
(* alternate in kind: no BUY directly follows a BUY and no SELL directly   *)
(* follows a SELL, also when the averages are equal on a bar in between.   *)
(***************************************************************************)
C28_SignalsAlternate ==
    Returned =>
       \A k \in 1..(Len(signals) - 1) : signals[k].type # signals[k + 1].type

(***************************************************************************)
(* C29.  For a BUY signal built by _create_buy_signal with a positive      *)
(* price, 0 < stop_loss_pct < 1 and take_profit_pct > 0, the outcome       *)
(* agrees with the sign of the return: WIN implies current_return_pct >=   *)
(* take_profit_pct * 100 > 0, LOSS implies current_return_pct <=           *)
(* -stop_loss_pct * 100 < 0, and the price is never at or above the target *)
(* and at or below the stop together.                                      *)
(***************************************************************************)
BuiltByGenerator ==
    /\ BuyEvaluated
    /\ 0 < stop_loss_pct /\ stop_loss_pct < 100
    /\ take_profit_pct > 0
    /\ perf_signal.price.n > 0
    /\ perf_signal = create_buy_signal(perf_signal.date, perf_signal.price,
                                       stop_loss_pct, take_profit_pct)

C29_OutcomeAgreesWithReturn ==
    BuiltByGenerator =>
       LET r == performance.current_return_pct
       IN  /\ performance.outcome = "WIN" =>
                 /\ r.n >= take_profit_pct * r.d
                 /\ r.n > 0
           /\ performance.outcome = "LOSS" =>
                 /\ r.n <= (- stop_loss_pct) * r.d
                 /\ r.n < 0
           /\ ~ (/\ AtLeast(current_price, perf_signal.take_profit)
                 /\ AtMost(current_price, perf_signal.stop_loss))

\* a loss exactly at the stop of a 5 % generator: the return is -5
C29_Witness ==
    /\ BuiltByGenerator
    /\ performance.outcome = "LOSS"
    /\ stop_loss_pct = 5
    /\ Is(performance.current_return_pct, -5)

(***************************************************************************)
(* C30.  The two trend classifiers agree on the latest bar of a frame      *)
(* built with the default windows: analyze_trend prints STRONG BULLISH     *)
(* exactly when the response's label is STRONG_BULLISH, "MIXED (Price up"  *)
(* exactly for MIXED_BULLISH, STRONG BEARISH exactly for STRONG_BEARISH,   *)
(* "MIXED (Price down" or NEUTRAL exactly for MIXED_BEARISH, and it prints *)
(* that data is not enough exactly for INSUFFICIENT_DATA.                  *)
(***************************************************************************)
\* the label analyze_stock computes for the frame analyze_trend was given
ApiTrend ==
    ClassifyTrend(LastClose, Latest(data_with_indicators, SignalShortCol),
                  Latest(data_with_indicators, SignalLongCol)).trend

TrendAnalyzed ==
    /\ pc = "analyzed"
    /\ trend_shown.printed
    /\ short_window = DefaultShortWindow
    /\ long_window = DefaultLongWindow

C30_ClassifiersAgree ==
    TrendAnalyzed =>
       /\ trend_shown.trend = "STRONG BULLISH" <=> ApiTrend = "STRONG_BULLISH"
       /\ trend_shown.trend = "MIXED (Price up)" <=> ApiTrend = "MIXED_BULLISH"
       /\ trend_shown.trend = "STRONG BEARISH" <=> ApiTrend = "STRONG_BEARISH"
       /\ trend_shown.trend \in {"MIXED (Price down)", "NEUTRAL"}
             <=> ApiTrend = "MIXED_BEARISH"
       /\ trend_shown.trend = "Not enough data"
             <=> ApiTrend = "INSUFFICIENT_DATA"

\* equal averages under a higher price: NEUTRAL and MIXED_BEARISH
C30_Witness ==
    /\ TrendAnalyzed
    /\ Above(LastClose, LastFast)
    /\ trend_shown.trend = "NEUTRAL"
    /\ ApiTrend = "MIXED_BEARISH"

(***************************************************************************)
(* C23.  The chart data of an analysis response has exactly one point per  *)
(* input bar, in input order; the point of bar i has a fast (slow) average *)
(* exactly when that average is defined at bar i; data_points is the       *)
(* number of input bars.                                                   *)
(***************************************************************************)
C23_ChartOnePointPerBar ==
    pc = "http200" =>
       /\ Len(response.chart_data) = Len(data.close)
       /\ response.data_points = Len(data.close)
       /\ \A i \in 0..(Len(data.close) - 1) :
             LET point == At(response.chart_data, i)
             IN  /\ point.date = i
                 /\ Is(point.close, At(data.close, i))
                 /\ "sma_20" \in DOMAIN point <=> ~IsNa(FastAt(i))
                 /\ "sma_50" \in DOMAIN point <=> ~IsNa(SlowAt(i))
                 /\ "sma_20" \in DOMAIN point <=> i >= short_window - 1
                 /\ "sma_50" \in DOMAIN point <=> i >= long_window - 1

\* a chart whose first point has no average and whose last point has both
C23_Witness ==
    /\ pc = "http200"
    /\ Len(response.chart_data) = Len(data.close)
    /\ DOMAIN At(response.chart_data, 0) = {"date", "close"}
    /\ DOMAIN At(response.chart_data, Len(data.close) - 1)
          = {"date", "close", "sma_20", "sma_50"}

(***************************************************************************)
(* C22.  A failed data acquisition ends the analysis at once: when the     *)
(* fetch yields no data, analyze_stock answers with HTTP 404 and a detail  *)
(* that names the symbol, the generic exception handler does not turn it   *)
(* into a 500, and no further step (add_moving_averages,                   *)
(* find_crossover_signals) is taken for that request.                      *)
(***************************************************************************)
FetchYieldsNothing == pc = "start" /\ caller = "api" /\ IsNone(data')

\* a step that answers a failed fetch with the 404, and no step after a 404
ShortCircuitStep ==
    /\ FetchYieldsNothing =>
          /\ pc' = "http404"
          /\ response' = [status |-> 404,
                          detail |-> <<"Could not fetch data for", symbol>>]
          /\ data_with_indicators' = None
          /\ exit_path' = "none"
    /\ pc # "http404"

C22_NotFoundShortCircuits == [][ShortCircuitStep]_vars

\* the 404 of a request for the symbol INVALID
C22_Witness ==
    /\ pc = "http404"
    /\ symbol = "INVALID"
    /\ IsNone(data)
    /\ response.status = 404
    /\ ~IndicatorsCalled
    /\ exit_path = "none"

(***************************************************************************)
(* C25.  add_moving_averages and find_crossover_signals leave their inputs *)
(* as they were: after either call the input series has the bars and the   *)
(* columns it had, the generator has the stop_loss_pct and take_profit_pct *)
(* it had, and the averages are columns of the returned copy only.         *)
(***************************************************************************)
\* a step of either call
InputsKeptStep ==
    pc \in {"fetched", "indicators"} =>
          /\ data' = data
          /\ stop_loss_pct' = stop_loss_pct
          /\ take_profit_pct' = take_profit_pct
          /\ pc = "indicators" => data_with_indicators' = data_with_indicators
          /\ ~IsNone(data') => data'.cols = NoCols
          /\ ~IsNone(data_with_indicators') =>
                /\ data_with_indicators'.close = data'.close
                /\ HasCol(data_with_indicators', short_window')
                /\ HasCol(data_with_indicators', long_window')

C25_CallsLeaveInputsUnchanged == [][InputsKeptStep]_vars

\* both calls have run on a series that signals
C25_Witness ==
    /\ exit_path = "scanned"
    /\ Len(signals) > 0
    /\ data.cols = NoCols
    /\ HasCol(data_with_indicators, SignalShortCol)
    /\ data_with_indicators.close = data.close

(***************************************************************************)
(* C26.  Requests are independent: when the steps of two requests are      *)
(* interleaved in any order through the module's one DataFetcher,          *)
(* SimpleIndicators and SimpleSignalGenerator, each request returns the    *)
(* result it returns when it runs alone.                                   *)
(***************************************************************************)
Answered(r) == requests[r].pc \in {"http200", "http404", "http500"}

C26_RequestsIndependent ==
    \A r \in Requests :
       Answered(r) =>
          requests[r].response
             = analyze_stock(requests[r].symbol, requests[r].history,
                             requests[r].failed)

\* the first request is answered with signals while the second, which holds
\* another series, is still between two of its steps
C26_Witness ==
    /\ requests["first"].pc = "http200"
    /\ Len(requests["first"].response.signals) > 0
    /\ requests["second"].pc = "indicators"
    /\ requests["second"].data # requests["first"].data

====
